---------------------------- MODULE Spec2Model ----------------------------
(***************************************************************************)
(* A/B test analysis: the statistical inference engine (src/statistics.py, *)
(* src/ab_analysis/analysis/stats_tests.py) and the cleaning layer that    *)
(* feeds it (src/data_loader.py, src/ab_analysis/data/clean.py).           *)
(*                                                                         *)
(* Numbers.  Probabilities, rates and significance levels are integers in  *)
(* units of 10^-6 ("micro"); a float that is NaN is the record NaN.  A     *)
(* quotient that the code never rounds is kept as a fraction and compared  *)
(* by cross-multiplication, so that round(x, d) is a real operation of the *)
(* model: the nearest multiple of 10^-d, not the identity.                 *)
(***************************************************************************)
EXTENDS Integers, Sequences, FiniteSets, TLC

VARIABLES
    op,      \* the function of the last completed call ("init" before any)
    args,    \* its arguments
    out,     \* what it returned, or the exception it raised
    \* segment_analysis, statement by statement
    sa_pc,       \* "idle", "loop" (lines 208-214), "done", "raised"
    df,          \* the data frame: its segments in order of first appearance
                 \* and the control and treatment cell of each
    todo,        \* what is left of sorted(segments)
    results,     \* the list of per-segment test records
    p_values,    \* the list of their p-values
    results_df,  \* the data frame returned
    \* bayesian_ab_test, statement by statement, several calls at a time
    calls,       \* per call: where it stands, its arguments, its local
                 \* post_ctrl and post_treat, what it returned or raised
    rngs,        \* per RandomState object: the state of its stream
    \* power_analysis, statement by statement
    pa,          \* the call in progress: where it stands, its arguments, the
                 \* loop counter, lo, hi and mid, and the results dictionary
    pa_prev      \* the call the caller made before it, with what it returned

callvars == <<op, args, out>>
savars == <<sa_pc, df, todo, results, p_values, results_df>>
bayesvars == <<calls, rngs>>
powervars == <<pa, pa_prev>>
vars == <<op, args, out, sa_pc, df, todo, results, p_values, results_df, calls, rngs,
          pa, pa_prev>>

-----------------------------------------------------------------------------
(* Bounds of the model *)

MaxTests == 3      \* longest p-value list handed to bonferroni_correction
MaxN == 3          \* most rows of one group in a data frame handed to a test
MaxSeg == 3        \* most distinct segment labels in a data frame
MaxRows == 2       \* most rows of a raw event table
MaxCountryRows == 2    \* most rows of a country table
MaxCalls == 3      \* most calls of bayesian_ab_test in progress at once
MaxHits == 16      \* among 100000 paired draws, at most this many (or all but
                   \* this many) have the treatment draw above the control draw

-----------------------------------------------------------------------------
(* Floats *)

Micro == 10 ^ 6

NaN == [nan |-> TRUE, v |-> 0]
Num(x) == [nan |-> FALSE, v |-> x]

\* IEEE comparison: every comparison with NaN is false.
FLt(a, b) == ~a.nan /\ ~b.nan /\ a.v < b.v
FGt(a, b) == FLt(b, a)

Abs(x) == IF x < 0 THEN -x ELSE x

\* floor(num / den) for den > 0 and any sign of num.
FloorDiv(num, den) == num \div den

\* The integer nearest to num/den (den > 0), a tie going to the even
\* neighbour: round() and numpy's rint.  On doubles a decimal tie is decided by
\* the representation error of the operand; the doubles below do that
\* bit-exactly where a claim depends on it.
RoundDiv(num, den) ==
    LET q == FloorDiv(num, den)
        r == num - q * den
    IN  IF 2 * r < den THEN q
        ELSE IF 2 * r > den THEN q + 1
        ELSE IF q % 2 = 0 THEN q ELSE q + 1

\* round(x, 4) of a float in micro units: the nearest multiple of 10^-4.
Round4(x) == IF x.nan THEN NaN ELSE Num(100 * RoundDiv(x.v, 100))

\* The outcome of a call that raised.
Raised(e) == [exc |-> e]

-----------------------------------------------------------------------------
(* statsmodels' proportions_ztest, two-sided *)

\* A group of a data frame: <<rows, conversions>>.
Cells(maxn) == {<<n, x>> : n \in 0..maxn, x \in 0..maxn} \cap
               {c \in (0..maxn) \X (0..maxn) : c[2] <= c[1]}

CellIndex(c) == (c[1] * (c[1] + 1)) \div 2 + c[2] + 1

\* p-value of the pooled two-proportion z-test in micro units, row = treatment
\* cell, column = control cell, cells in the order (0,0), (1,0), (1,1), (2,0),
\* ... (4,4); -1 is NaN (an empty group, or a pooled rate of 0 or 1).
\*   p = erfc(|z| / sqrt 2),  z = (xt/nt - xc/nc) / sqrt(pp (1-pp) (1/nt + 1/nc)),
\*   pp = (xt + xc) / (nt + nc)
PTable == <<
  <<-1, -1, -1, -1, -1, -1, -1, -1, -1, -1, -1, -1, -1, -1, -1>>,
  <<-1, -1, 157299, -1, 386476, 83265, -1, 504985, 248213, 45500, -1, 576150, 361310, 170904, 25347>>,
  <<-1, 157299, -1, 83265, 386476, -1, 45500, 248213, 504985, -1, 25347, 170904, 361310, 576150, -1>>,
  <<-1, -1, 83265, -1, 248213, 45500, -1, 361310, 136037, 25347, -1, 438578, 220671, 83265, 14306>>,
  <<-1, 386476, 386476, 248213, 1000000, 248213, 170904, 709388, 709388, 170904, 121335, 540291, 1000000, 540291, 121335>>,
  <<-1, 83265, -1, 45500, 248213, -1, 25347, 136037, 361310, -1, 14306, 83265, 220671, 438578, -1>>,
  <<-1, -1, 45500, -1, 170904, 25347, -1, 273322, 83265, 14306, -1, 349575, 147299, 47221, 8151>>,
  <<-1, 504985, 248213, 361310, 709388, 136037, 273322, 1000000, 414216, 83265, 212317, 809150, 659243, 270289, 53337>>,
  <<-1, 248213, 504985, 136037, 709388, 361310, 83265, 414216, 1000000, 273322, 53337, 270289, 659243, 809150, 212317>>,
  <<-1, 45500, -1, 25347, 170904, -1, 14306, 83265, 273322, -1, 8151, 47221, 147299, 349575, -1>>,
  <<-1, -1, 25347, -1, 121335, 14306, -1, 212317, 53337, 8151, -1, 285049, 102470, 28460, 4678>>,
  <<-1, 576150, 170904, 438578, 540291, 83265, 349575, 809150, 270289, 47221, 285049, 1000000, 465209, 157299, 28460>>,
  <<-1, 361310, 361310, 220671, 1000000, 220671, 147299, 659243, 659243, 147299, 102470, 465209, 1000000, 465209, 102470>>,
  <<-1, 170904, 576150, 83265, 540291, 438578, 47221, 270289, 809150, 349575, 28460, 157299, 465209, 1000000, 285049>>,
  <<-1, 25347, -1, 14306, 121335, -1, 8151, 53337, 212317, -1, 4678, 28460, 102470, 285049, -1>>
>>

\* proportions_ztest([x_treat, x_ctrl], [n_treat, n_ctrl])[1].  numpy divides by
\* zero without raising: the p-value of a test with an empty group is NaN.
proportions_ztest(treat, ctrl) ==
    LET p == PTable[CellIndex(treat)][CellIndex(ctrl)]
    IN  IF p < 0 THEN NaN ELSE Num(p)

-----------------------------------------------------------------------------
(* statistics.py: z_test *)

\* numpy's x / n: NaN for 0 / 0, no exception.  The quotient rounded to six
\* decimals, in micro units.
NpRate6(x, n) == IF n = 0 THEN NaN ELSE Num(RoundDiv(x * Micro, n))

\* The data frame is the pair of its groups' cells.
z_test(ctrl, treat) ==
    LET n_ctrl == ctrl[1]
        x_ctrl == ctrl[2]
        n_treat == treat[1]
        x_treat == treat[2]
        p_val == proportions_ztest(treat, ctrl)
        empty == n_ctrl = 0 \/ n_treat = 0
        \* diff = p_treat - p_ctrl = dnum / dden
        dnum == x_treat * n_ctrl - x_ctrl * n_treat
        dden == n_treat * n_ctrl
    IN  [ exc |-> "none",
          p_value |-> Round4(p_val),
          control_conv |-> NpRate6(x_ctrl, n_ctrl),
          treatment_conv |-> NpRate6(x_treat, n_treat),
          absolute_diff |-> IF empty THEN NaN ELSE Num(RoundDiv(dnum * Micro, dden)),
          \* round(diff / p_ctrl * 100, 4) if p_ctrl > 0 else 0.0, in units of
          \* 10^-4 percent; NaN > 0 is false
          relative_diff_pct |->
              IF n_ctrl > 0 /\ x_ctrl > 0
              THEN (IF empty THEN NaN
                    ELSE Num(RoundDiv(dnum * Micro, n_treat * x_ctrl)))
              ELSE Num(0) ]

-----------------------------------------------------------------------------
(* ab_analysis/analysis/stats_tests.py: run_ab_test *)

\* A float the code does not round: the fraction num / den.
Frac(num, den) == [num |-> num, den |-> den]

\* The alternatives statsmodels accepts; any other raises ValueError.
TwoSided == {"two-sided", "2-sided", "2s"}
Larger == {"larger", "l"}
Smaller == {"smaller", "s"}

\* proportions_ztest(..., alternative)[1]: 2 sf(|z|), sf(z) or cdf(z), where
\* sf(|z|) is half the two-sided p-value and z has the sign of the difference.
proportions_ztest_alt(treat, ctrl, alternative) ==
    LET two == proportions_ztest(treat, ctrl)
        half == RoundDiv(two.v, 2)
        zneg == treat[2] * ctrl[1] < ctrl[2] * treat[1]
    IN  IF alternative \in TwoSided \/ two.nan THEN two
        ELSE IF (alternative \in Larger) = zneg THEN Num(Micro - half)
        ELSE Num(half)

\* Python's int / int and float / float raise ZeroDivisionError on a zero
\* divisor (lines 47 and 63); z_statistic, the interval and cohens_h are
\* computed without raising and are left out of the record.
run_ab_test(ctrl, treat, alpha, alternative) ==
    LET n1 == ctrl[1]
        x1 == ctrl[2]
        n2 == treat[1]
        x2 == treat[2]
    IN  IF n1 = 0 \/ n2 = 0 THEN Raised("ZeroDivisionError")
        ELSE IF alternative \notin TwoSided \cup Larger \cup Smaller
             THEN Raised("ValueError")
        ELSE IF x1 = 0 THEN Raised("ZeroDivisionError")
        ELSE [ exc |-> "none",
               control_rate |-> Frac(x1, n1),
               treatment_rate |-> Frac(x2, n2),
               absolute_lift |-> Frac(x2 * n1 - x1 * n2, n1 * n2),
               relative_lift |-> Frac(x2 * n1 - x1 * n2, n2 * x1),
               p_value |-> proportions_ztest_alt(treat, ctrl, alternative) ]

-----------------------------------------------------------------------------
(* statistics.py: bonferroni_correction *)

\* (mutant) the threshold itself counted as significant
LeQuot(p, alpha, n) == ~p.nan /\ p.v * n <= alpha

\* p < alpha / n_tests on the unrounded quotient.
LtQuot(p, alpha, n) == ~p.nan /\ p.v * n < alpha

bonferroni_correction(pvals, alpha) ==
    LET n_tests == Len(pvals)
    IN  IF n_tests = 0 THEN Raised("ZeroDivisionError")
        ELSE [ exc |-> "none",
               original_alpha |-> alpha,
               n_tests |-> n_tests,
               adjusted_alpha |-> RoundDiv(alpha, n_tests),
               results |-> [i \in 1..n_tests |->
                   [ p_value |-> Round4(pvals[i]),
                     significant |-> LtQuot(pvals[i], alpha, n_tests) ]] ]

-----------------------------------------------------------------------------
(* IEEE-754 doubles, bit for bit                                           *)
(*                                                                         *)
(* A positive double is [bits, sh]: the integer whose binary digits are    *)
(* bits (most significant first, at most 53 of them) divided by 2^sh.      *)
(* Long arithmetic is done on limbs of nine binary digits.                 *)

MantissaBits == 53

LimbBits == 3 * 3
Radix == 2 ^ LimbBits

Zeros(n) == [i \in 1..n |-> 0]
AnyOne(b) == \E i \in DOMAIN b : b[i] = 1
Reverse(b) == [i \in 1..Len(b) |-> b[Len(b) + 1 - i]]

RECURSIVE BitsToInt(_, _)
BitsToInt(b, acc) == IF b = <<>> THEN acc ELSE BitsToInt(Tail(b), 2 * acc + Head(b))

StripZeros(b) ==
    IF ~AnyOne(b) THEN <<>>
    ELSE LET first == CHOOSE i \in DOMAIN b : b[i] = 1 /\ \A j \in 1..(i - 1) : b[j] = 0
         IN  SubSeq(b, first, Len(b))

\* b + 1; one digit longer on overflow.
Increment(b) ==
    IF \A i \in DOMAIN b : b[i] = 1 THEN <<1>> \o Zeros(Len(b))
    ELSE LET last == CHOOSE i \in DOMAIN b : b[i] = 0 /\ \A j \in (i + 1)..Len(b) : b[j] = 1
         IN  [i \in DOMAIN b |-> IF i < last THEN b[i] ELSE IF i = last THEN 1 ELSE 0]

\* The binary digits of a sequence of limbs, and the limbs of a sequence of
\* binary digits (padded in front).
LimbsToBits(l) ==
    [i \in 1..(LimbBits * Len(l)) |->
        (l[(i - 1) \div LimbBits + 1] \div 2 ^ (LimbBits - 1 - ((i - 1) % LimbBits))) % 2]

BitsToLimbs(b) ==
    LET padded == Zeros((LimbBits - (Len(b) % LimbBits)) % LimbBits) \o b
    IN  [j \in 1..(Len(padded) \div LimbBits) |->
            BitsToInt(SubSeq(padded, LimbBits * (j - 1) + 1, LimbBits * j), 0)]

\* Round to nearest, ties to even, to 53 significant digits; sticky says that
\* non-zero digits lie beyond the ones given.
Round53(digits, sh, sticky) ==
    LET b == StripZeros(digits) IN
    IF Len(b) <= MantissaBits THEN [bits |-> b, sh |-> sh]
    ELSE LET keep == SubSeq(b, 1, MantissaBits)
             rest == SubSeq(b, MantissaBits + 1, Len(b))
             more == sticky \/ AnyOne(Tail(rest))
             up == Head(rest) = 1 /\ (more \/ keep[MantissaBits] = 1)
             kept == IF up THEN Increment(keep) ELSE keep
         IN  IF Len(kept) > MantissaBits
             THEN [bits |-> SubSeq(kept, 1, MantissaBits), sh |-> sh - Len(rest) - 1]
             ELSE [bits |-> kept, sh |-> sh - Len(rest)]

\* Long division: the next cnt limbs of r / n after the binary point, and the
\* remainder left.
RECURSIVE DivLimbs(_, _, _)
DivLimbs(r, n, cnt) ==
    IF cnt = 0 THEN [limbs |-> <<>>, rem |-> r]
    ELSE LET rest == DivLimbs((r * Radix) % n, n, cnt - 1)
         IN  [limbs |-> <<(r * Radix) \div n>> \o rest.limbs, rem |-> rest.rem]

\* k / n correctly rounded, for 0 < k < n < 2^21: nine limbs hold the leading
\* zeros and at least 54 significant digits.
FromQuot(k, n) ==
    LET q == DivLimbs(k, n, LimbBits)
    IN  Round53(LimbsToBits(q.limbs), LimbBits * LimbBits, q.rem > 0)

\* 1 - d for 0 < d < 1: 2^sh minus the integer, rounded.
OneMinus(d) ==
    LET padded == Zeros(d.sh - Len(d.bits)) \o d.bits
        flipped == [i \in DOMAIN padded |-> 1 - padded[i]]
    IN  Round53(Increment(flipped), d.sh, FALSE)

\* The limbs of (limbs * c + carry), least significant first.
RECURSIVE TimesRev(_, _, _)
TimesRev(r, c, carry) ==
    IF r = <<>>
    THEN (IF carry = 0 THEN <<>> ELSE <<carry % Radix>> \o TimesRev(r, c, carry \div Radix))
    ELSE LET t == Head(r) * c + carry
         IN  <<t % Radix>> \o TimesRev(Tail(r), c, t \div Radix)

\* d * c for a small positive integer c, rounded.
TimesInt(d, c) ==
    Round53(LimbsToBits(Reverse(TimesRev(Reverse(BitsToLimbs(d.bits)), c, 0))), d.sh, FALSE)

\* (mutant) the fraction cut off
Truncate(d) ==
    LET padded == Zeros(d.sh + 1 - Len(d.bits)) \o d.bits
    IN  BitsToInt(SubSeq(padded, 1, Len(padded) - d.sh), 0)

\* numpy.rint of a positive double below 2^31 with sh > 0: the nearest integer,
\* a tie going to the even one.
Rint(d) ==
    LET padded == Zeros(d.sh + 1 - Len(d.bits)) \o d.bits
        q == BitsToInt(SubSeq(padded, 1, Len(padded) - d.sh), 0)
        frac == SubSeq(padded, Len(padded) - d.sh + 1, Len(padded))
    IN  IF Head(frac) = 0 THEN q
        ELSE IF AnyOne(Tail(frac)) THEN q + 1
        ELSE IF q % 2 = 0 THEN q ELSE q + 1

-----------------------------------------------------------------------------
(* statistics.py: bayesian_ab_test, the probabilities (lines 155-164)      *)

TenK == 10 ^ 4

\* round(x, 4) of a numpy float64 in (0, 1): rint(x * 10^4) / 10^4, the result
\* in units of 10^-4.
NpRound4(d) == Rint(TimesInt(d, TenK))

\* prob_treat_better = (diff > 0).mean() with k of the n_samples paired
\* differences positive; the two probabilities reported, in units of 10^-4.
probabilities(k, n_samples) ==
    IF k = 0 THEN [prob_treatment_better |-> 0, prob_control_better |-> TenK]
    ELSE IF k = n_samples
         THEN [prob_treatment_better |-> TenK, prob_control_better |-> 0]
    ELSE LET prob_treat_better == FromQuot(k, n_samples)
         IN  [ prob_treatment_better |-> NpRound4(prob_treat_better),
               prob_control_better |-> NpRound4(OneMinus(prob_treat_better)) ]

DefaultSamples == 100000       \* n_samples: int = 100_000

SampleSizes == {1, 2, 3, 7, 8, DefaultSamples}

Hits(n) == {k \in 0..n : k <= MaxHits \/ n - k <= MaxHits}

-----------------------------------------------------------------------------
(* stats_tests.py: holm_correction *)

Min(a, b) == IF a <= b THEN a ELSE b

Orderings(n) == {f \in [1..n -> 1..n] : \A i, j \in 1..n : f[i] = f[j] => i = j}

\* (mutant) the positions as they stand, unsorted
IdentityOrder(pvals) == {[r \in 1..Len(pvals) |-> r]}

\* np.argsort(p_values): the positions in ascending order of their values; the
\* default sort is not stable, so equal values may come in either order.
argsort(pvals) ==
    {order \in Orderings(Len(pvals)) :
        \A r, t \in 1..Len(pvals) : r < t => pvals[order[r]] <= pvals[order[t]]}

\* (mutant) textbook Holm: each value raised to the largest one before it in
\* the sorted order
holm_running_max(pvals, order) ==
    [idx \in 1..Len(pvals) |->
        LET rank == CHOOSE r \in 1..Len(pvals) : order[r] = idx
            upto == {Min((Len(pvals) - (t - 1)) * pvals[order[t]], Micro) : t \in 1..rank}
        IN  CHOOSE m \in upto : \A x \in upto : x <= m]

\* Lines 75-78 for one outcome of the sort; rank counts from 0, p-values and
\* adjusted values in micro units.
holm_adjusted(pvals, order) ==
    [idx \in 1..Len(pvals) |->
        LET rank == (CHOOSE r \in 1..Len(pvals) : order[r] = idx) - 1
        IN  Min((Len(pvals) - rank) * pvals[idx], Micro)]

\* The lists holm_correction may return.
holm_correction(pvals) ==
    {[exc |-> "none", adjusted |-> holm_adjusted(pvals, order)] : order \in argsort(pvals)}

-----------------------------------------------------------------------------
(* statistics.py: cohens_h, interpret_effect_size *)

\* Proportions in units of 10^-5; effect sizes in units of 10^-4.

\* arcsin(sqrt(p)) in units of 10^-8 for the proportions the calls use.
ArcsinSqrt ==
    [p \in {0, 10000, 40000, 50000, 50001, 60000, 100000} |->
        CASE p = 0 -> 0
          [] p = 10000 -> 32175055
          [] p = 40000 -> 68471920
          [] p = 50000 -> 78539816
          [] p = 50001 -> 78540816
          [] p = 60000 -> 88607712
          [] p = 100000 -> 157079633]

\* 2 * (arcsin(sqrt(p1)) - arcsin(sqrt(p2))), unrounded, in units of 10^-8.
RawH(p1, p2) == 2 * (ArcsinSqrt[p1] - ArcsinSqrt[p2])

\* (mutant) rounded down instead of to the nearest
cohens_h_floor(p1, p2) == FloorDiv(RawH(p1, p2), TenK)

\* round(2 * (np.arcsin(np.sqrt(p1)) - np.arcsin(np.sqrt(p2))), 4)
cohens_h(p1, p2) == RoundDiv(RawH(p1, p2), TenK)

\* (mutant) the boundaries in the lower class
interpret_effect_size_le(h) ==
    LET h_abs == Abs(h) IN
    IF h_abs <= 2000 THEN "Negligible"
    ELSE IF h_abs <= 5000 THEN "Small"
    ELSE IF h_abs <= 8000 THEN "Medium"
    ELSE "Large"

interpret_effect_size(h) ==
    LET h_abs == Abs(h) IN
    IF h_abs < 2000 THEN "Negligible"
    ELSE IF h_abs < 5000 THEN "Small"
    ELSE IF h_abs < 8000 THEN "Medium"
    ELSE "Large"

-----------------------------------------------------------------------------
(* stats_tests.py: srm_check *)

RECURSIVE GCD(_, _)
GCD(a, b) == IF b = 0 THEN a ELSE GCD(b, a % b)

\* A fraction in lowest terms (den > 0, num >= 0).
Reduced(num, den) == Frac(num \div GCD(num, den), den \div GCD(num, den))

\* The default expected_split, in quarters.
Quarters == 4
DefaultSplit == <<2, 2>>

\* scipy's chi2_contingency of the 2 x 2 table [observed, expected], with the
\* continuity correction it applies by default at one degree of freedom:
\* Pearson's statistic of independence of the two rows, every |O - E| first
\* reduced by min(0.5, |O - E|).  The table is held in quarters: a, b are the
\* observed counts, c, d the expected ones, all times 4.  For a table of
\* zeros the expected frequencies are 0 / 0 and the statistic is NaN; any other
\* zero marginal makes scipy raise ValueError.
chi2_contingency(a, b, c, d) ==
    LET n == a + b + c + d
        det == Abs(a * d - b * c)
        excess == IF 2 * det > Quarters * n THEN 2 * det - Quarters * n ELSE 0
        margins == (a + b) * (c + d) * (a + c) * (b + d)
    IN  IF n = 0 THEN [exc |-> "none", chi2 |-> NaN]
        ELSE IF margins = 0 THEN Raised("ValueError")
        ELSE [exc |-> "none", chi2 |-> Reduced(excess * excess * n, 4 * Quarters * margins)]

\* Lines 27-37; chi2 as a fraction.
srm_check(control, treatment, expected_split) ==
    LET total == control + treatment
        r == chi2_contingency(Quarters * control, Quarters * treatment,
                              expected_split[1] * total, expected_split[2] * total)
    IN  IF r.exc # "none" THEN r
        ELSE [exc |-> "none", control_count |-> control,
              treatment_count |-> treatment, chi2 |-> r.chi2]

-----------------------------------------------------------------------------
(* Exact arithmetic on large naturals                                      *)
(*                                                                         *)
(* A natural is the sequence of its digits in base 10^4, least significant *)
(* first; leading zeros are allowed.                                       *)

Base == 10 ^ 4

RECURSIVE BigOf(_)
BigOf(n) == IF n = 0 THEN <<>> ELSE <<n % Base>> \o BigOf(n \div Base)

Digit(x, i) == IF i \in DOMAIN x THEN x[i] ELSE 0

Max(a, b) == IF a >= b THEN a ELSE b

\* Carries (or borrows, for negative entries) propagated upwards.
RECURSIVE Carry(_, _)
Carry(raw, carry) ==
    IF raw = <<>>
    THEN (IF carry = 0 THEN <<>> ELSE <<carry % Base>> \o Carry(raw, carry \div Base))
    ELSE LET t == Head(raw) + carry
         IN  <<t % Base>> \o Carry(Tail(raw), t \div Base)

BigAdd(x, y) == Carry([i \in 1..Max(Len(x), Len(y)) |-> Digit(x, i) + Digit(y, i)], 0)

\* x - y for x >= y.
BigSub(x, y) == Carry([i \in 1..Max(Len(x), Len(y)) |-> Digit(x, i) - Digit(y, i)], 0)

BigLt(x, y) ==
    \E i \in 1..Max(Len(x), Len(y)) :
        /\ Digit(x, i) < Digit(y, i)
        /\ \A j \in (i + 1)..Max(Len(x), Len(y)) : Digit(x, j) = Digit(y, j)

\* The k-th digit of the product before carrying, summed from term i on.
RECURSIVE Convolve(_, _, _, _)
Convolve(x, y, k, i) ==
    IF i > Len(x) \/ i > k THEN 0
    ELSE x[i] * Digit(y, k + 1 - i) + Convolve(x, y, k, i + 1)

\* x * y, for x of at most 21 digits.
BigMul(x, y) ==
    IF x = <<>> \/ y = <<>> THEN <<>>
    ELSE Carry([k \in 1..(Len(x) + Len(y) - 1) |-> Convolve(x, y, k, 1)], 0)

-----------------------------------------------------------------------------
(* statistics.py: power_analysis, the sample size formula                  *)

\* stats.norm.ppf(q) times 10^12 for the quantiles in use (q in micro units):
\* 1.959963984540 for q = 0.975 and 0.841621233573 for q = 0.80.
norm_ppf(q) ==
    CASE q = 975000 -> <<4540, 6398, 9599, 1>>
      [] q = 800000 -> <<3573, 2123, 8416>>

\* x * 10^24, the square of the scale of norm_ppf.
TimesZScaleSquared(x) == <<0, 0, 0, 0, 0, 0>> \o x

Twice(x) == BigAdd(x, x)

\* ((z_alpha * se_null + z_beta * se_alt) / m) ** 2 against n, for the rates
\* p1 = P1 / D and m = Mm / D:  "nan" when a square root is taken of a negative
\* number, otherwise "gt" when the value exceeds n and "le" when it does not.
\* With A = 2 D^2 se_null^2 and B = 2 D^2 se_alt^2 the value exceeds n exactly
\* when  za^2 A + zb^2 B + 2 sqrt(za^2 A zb^2 B) > 2 n Mm^2 10^24.
n_needed_against(P1, Mm, D, za, zb, n) ==
    LET X == BigAdd(Twice(P1), Mm)               \* 2 D p_avg
        P2 == BigAdd(P1, Mm)
        T1 == BigMul(P1, BigSub(D, P1))          \* D^2 p1 (1 - p1)
        over == BigLt(D, P2)                     \* p2 > 1
        T2 == IF over THEN BigMul(P2, BigSub(P2, D)) ELSE BigMul(P2, BigSub(D, P2))
    IN  IF BigLt(Twice(D), X) \/ (over /\ BigLt(T1, T2)) THEN "nan"
        ELSE LET A == BigMul(X, BigSub(Twice(D), X))
                 B == Twice(IF over THEN BigSub(T1, T2) ELSE BigAdd(T1, T2))
                 ZA == BigMul(BigMul(za, za), A)
                 ZB == BigMul(BigMul(zb, zb), B)
                 U == BigAdd(ZA, ZB)
                 T == TimesZScaleSquared(Twice(BigMul(BigOf(n), BigMul(Mm, Mm))))
             IN  IF BigLt(T, U) THEN "gt"
                 ELSE LET R == BigSub(T, U)
                      IN  IF BigLt(BigMul(R, R), Twice(Twice(BigMul(ZA, ZB))))
                          THEN "gt" ELSE "le"

\* Baseline rates are thousandths.
Milli == 10 ^ 3

\* The formula at an mde given in micro units (lines 95-100).
n_required_against(baseline_rate, mde, za, zb, n) ==
    n_needed_against(BigOf(baseline_rate * Milli), BigOf(mde), BigOf(Micro), za, zb, n)

\* (mutant) rounded down: the greatest n the value exceeds
RECURSIVE FloorBetween(_, _, _, _, _, _)
FloorBetween(baseline_rate, mde, za, zb, lo, hi) ==
    IF hi - lo <= 1 THEN lo
    ELSE LET mid == (lo + hi) \div 2
         IN  IF n_required_against(baseline_rate, mde, za, zb, mid) = "gt"
             THEN FloorBetween(baseline_rate, mde, za, zb, mid, hi)
             ELSE FloorBetween(baseline_rate, mde, za, zb, lo, mid)

\* int(np.ceil(n_required)): the least n the value does not exceed, found
\* between lo (exceeded) and hi (not exceeded).
RECURSIVE CeilBetween(_, _, _, _, _, _)
CeilBetween(baseline_rate, mde, za, zb, lo, hi) ==
    IF hi - lo <= 1 THEN hi
    ELSE LET mid == (lo + hi) \div 2
         IN  IF n_required_against(baseline_rate, mde, za, zb, mid) = "gt"
             THEN CeilBetween(baseline_rate, mde, za, zb, mid, hi)
             ELSE CeilBetween(baseline_rate, mde, za, zb, lo, mid)

MaxInt == 2 ^ 30

\* required_n_per_group, or the ValueError of int(nan).
required_n_per_group(baseline_rate, mde, za, zb) ==
    IF n_required_against(baseline_rate, mde, za, zb, 0) = "nan" THEN Raised("ValueError")
    ELSE [exc |-> "none", n |-> CeilBetween(baseline_rate, mde, za, zb, 0, MaxInt)]

-----------------------------------------------------------------------------
(* statistics.py: power_analysis, the search for the detectable effect     *)
(*                                                                         *)
(* lo, hi and mid are doubles, bit for bit, always written with 53         *)
(* binary digits.  The sample size needed at mid is compared exactly, at   *)
(* mid cut to 34 binary places and with the normal quantiles to 12         *)
(* decimals.                                                               *)

\* The double d written with 53 digits.
Canon(d) ==
    [bits |-> d.bits \o Zeros(MantissaBits - Len(d.bits)),
     sh |-> d.sh + (MantissaBits - Len(d.bits))]

\* The digits of d at the scale sh >= d.sh.
Aligned(d, sh) == d.bits \o Zeros(sh - d.sh)

RECURSIVE CarryBits(_, _)
CarryBits(raw, carry) ==
    IF raw = <<>>
    THEN (IF carry = 0 THEN <<>> ELSE <<carry % Radix>> \o CarryBits(raw, carry \div Radix))
    ELSE LET t == Head(raw) + carry
         IN  <<t % Radix>> \o CarryBits(Tail(raw), t \div Radix)

\* The digits of the sum of two naturals given by their digits.
SumBits(x, y) ==
    LET rx == Reverse(BitsToLimbs(x))
        ry == Reverse(BitsToLimbs(y))
    IN  LimbsToBits(Reverse(CarryBits(
            [i \in 1..Max(Len(rx), Len(ry)) |-> Digit(rx, i) + Digit(ry, i)], 0)))

\* x < y for digit sequences read as naturals.
BitsLt(x, y) ==
    LET len == Max(Len(x), Len(y))
        px == Zeros(len - Len(x)) \o x
        py == Zeros(len - Len(y)) \o y
    IN  \E i \in 1..len : px[i] < py[i] /\ \A j \in 1..(i - 1) : px[j] = py[j]

\* x < y and x <= y for doubles.
DLt(x, y) ==
    LET sh == Max(x.sh, y.sh) IN BitsLt(Aligned(x, sh), Aligned(y, sh))
DLe(x, y) == ~DLt(y, x)

\* The next double above d.
NextUp(d) ==
    LET up == Increment(Canon(d).bits)
    IN  IF Len(up) > MantissaBits
        THEN [bits |-> SubSeq(up, 1, MantissaBits), sh |-> Canon(d).sh - 1]
        ELSE [bits |-> up, sh |-> Canon(d).sh]

\* (mutant) the lower end instead of the middle
LowerEnd(lo, hi) == lo

\* mid = (lo + hi) / 2: the sum rounded to a double, then halved.
Midpoint(lo, hi) ==
    LET sh == Max(lo.sh, hi.sh)
        sum == Round53(SumBits(Aligned(lo, sh), Aligned(hi, sh)), sh, FALSE)
    IN  Canon([bits |-> sum.bits, sh |-> sum.sh + 1])

\* floor(d * 2^34) for a double 0 < d < 1.
Places == 34
CutToPlaces(d) ==
    BitsToInt(SubSeq(Zeros(d.sh - Len(d.bits)) \o d.bits, 1, Places), 0)

TwoToPlaces == BigMul(BigOf(2 ^ 17), BigOf(2 ^ 17))

\* n_needed > n_per_group at mid (lines 110-115); a comparison with NaN is
\* false.
n_needed_exceeds(baseline_rate, mid, za, zb, n_per_group) ==
    n_needed_against(BigMul(BigOf(baseline_rate), TwoToPlaces),
                     BigMul(BigOf(Milli), BigOf(CutToPlaces(mid))),
                     BigMul(BigOf(Milli), TwoToPlaces),
                     za, zb, n_per_group) = "gt"

\* d * c exactly, for a small positive integer c.
TimesExact(d, c) ==
    [bits |-> LimbsToBits(Reverse(TimesRev(Reverse(BitsToLimbs(d.bits)), c, 0))),
     sh |-> d.sh]

\* round(mid, 6) of a Python float, in micro units: the decimal nearest to the
\* exact value of the double.
Round6(d) == Rint(TimesExact(d, Micro))

\* round(mid / baseline_rate * 100, 2) in hundredths, from mid to seven
\* decimals.
detectable_mde_pct(mid, baseline_rate) ==
    RoundDiv(Rint(TimesExact(TimesExact(mid, TenK), Milli)), baseline_rate)

\* lo, hi = 0.0001, 0.10
SearchLo == Canon(FromQuot(1, 10 ^ 4))
SearchHi == Canon(FromQuot(1, 10))

Iterations == 100      \* for _ in range(100)

-----------------------------------------------------------------------------
(* The calls *)

\* p-values of the callers: 0.02 and 0.03 of the repository's test, values on
\* both sides of 0.05/2 and 0.05/3, and NaN.
PGrid == {Num(0), Num(16666), Num(16667), Num(20000), Num(24999), Num(25000),
          Num(30000), Num(49999), Num(1000000), NaN}

Alphas == {10000, 50000, 100000}

SeqsUpTo(S, n) == UNION {[1..k -> S] : k \in 0..n}

\* No call of bayesian_ab_test in a slot; no RandomState object alive.
NoCall == [pc |-> "idle"]
NoStream == <<>>

\* An argument left at None, and one given; no earlier call.
None == <<>>
Some(v) == <<v>>

Init ==
    /\ op = "init"
    /\ args = <<>>
    /\ out = <<>>
    /\ sa_pc = "idle"
    /\ df = [order |-> <<>>, data |-> <<>>]
    /\ todo = <<>>
    /\ results = <<>>
    /\ p_values = <<>>
    /\ results_df = <<>>
    /\ calls = [c \in 1..MaxCalls |-> NoCall]
    /\ rngs = [g \in 1..MaxCalls |-> NoStream]
    /\ pa = NoCall
    /\ pa_prev = None

\* A call is made when no call is in progress; Return hands the result back.
Idle == op = "init"

Return ==
    /\ ~Idle
    /\ op' = "init"
    /\ args' = <<>>
    /\ out' = <<>>
    /\ UNCHANGED <<savars, bayesvars, powervars>>

CallBonferroni ==
    /\ Idle
    /\ \E ps \in SeqsUpTo(PGrid, MaxTests), alpha \in Alphas :
        /\ op' = "bonferroni_correction"
        /\ args' = [p_values |-> ps, alpha |-> alpha]
        /\ out' = bonferroni_correction(ps, alpha)
        /\ UNCHANGED <<savars, bayesvars, powervars>>

CallZTest ==
    /\ Idle
    /\ \E ctrl \in Cells(MaxN), treat \in Cells(MaxN) :
        /\ op' = "z_test"
        /\ args' = [ctrl |-> ctrl, treat |-> treat]
        /\ out' = z_test(ctrl, treat)
        /\ UNCHANGED <<savars, bayesvars, powervars>>

Alternatives == {"two-sided", "larger", "smaller", "greater", "less"}

CallRunABTest ==
    /\ Idle
    /\ \E ctrl \in Cells(MaxN), treat \in Cells(MaxN),
          alpha \in Alphas, alternative \in Alternatives :
        /\ op' = "run_ab_test"
        /\ args' = [ctrl |-> ctrl, treat |-> treat, alpha |-> alpha,
                    alternative |-> alternative]
        /\ out' = run_ab_test(ctrl, treat, alpha, alternative)
        /\ UNCHANGED <<savars, bayesvars, powervars>>

\* Lines 155-164 of bayesian_ab_test on n_samples paired draws of which k
\* have the treatment draw above the control draw.
CallProbabilities ==
    /\ Idle
    /\ \E n_samples \in SampleSizes :
       \E k \in Hits(n_samples) :
        /\ op' = "probabilities"
        /\ args' = [k |-> k, n_samples |-> n_samples]
        /\ out' = [exc |-> "none"] @@ probabilities(k, n_samples)
    /\ UNCHANGED <<savars, bayesvars, powervars>>

\* p-values handed to holm_correction, in micro units.
HolmPs == {0, 10000, 11000, 20000, 400000, 500000, Micro}

CallHolm ==
    /\ Idle
    /\ \E pvals \in SeqsUpTo(HolmPs, MaxTests) :
        /\ op' = "holm_correction"
        /\ args' = [p_values |-> pvals]
        /\ out' \in holm_correction(pvals)
    /\ UNCHANGED <<savars, bayesvars, powervars>>

CallCohensH ==
    /\ Idle
    /\ \E p1 \in DOMAIN ArcsinSqrt, p2 \in DOMAIN ArcsinSqrt :
        /\ op' = "cohens_h"
        /\ args' = [p1 |-> p1, p2 |-> p2]
        /\ out' = [exc |-> "none", h |-> cohens_h(p1, p2)]
    /\ UNCHANGED <<savars, bayesvars, powervars>>

\* Effect sizes handed to interpret_effect_size: the boundaries, their
\* neighbours and their negatives.
HGrid == {-9000, -8000, -5000, -2001, -2000, -1999, 0, 500, 1999, 2000, 2001,
          4999, 5000, 7999, 8000, 9000}

CallInterpret ==
    /\ Idle
    /\ \E h \in HGrid :
        /\ op' = "interpret_effect_size"
        /\ args' = [h |-> h]
        /\ out' = [exc |-> "none", label |-> interpret_effect_size(h)]
    /\ UNCHANGED <<savars, bayesvars, powervars>>

CallSrmCheck ==
    /\ Idle
    /\ \E control \in 0..MaxN, treatment \in 0..MaxN :
        /\ op' = "srm_check"
        /\ args' = [control |-> control, treatment |-> treatment,
                    expected_split |-> DefaultSplit]
        /\ out' = srm_check(control, treatment, DefaultSplit)
    /\ UNCHANGED <<savars, bayesvars, powervars>>

Next ==
    \/ CallBonferroni
    \/ CallZTest
    \/ CallRunABTest
    \/ CallProbabilities
    \/ CallHolm
    \/ CallCohensH
    \/ CallInterpret
    \/ CallSrmCheck
    \/ Return

Spec == Init /\ [][Next]_vars

-----------------------------------------------------------------------------
(* statistics.py: segment_analysis *)

DefaultAlpha == 50000     \* bonferroni_correction's alpha = 0.05

\* The control and treatment cells a segment's rows may form: a segment with
\* no control rows, one with no treatment rows, p = 0.0455, p = 0.0143, p = 1,
\* and one where every row converted (p = NaN).
SegProfiles ==
    { [ctrl |-> <<0, 0>>, treat |-> <<2, 1>>],
      [ctrl |-> <<2, 1>>, treat |-> <<0, 0>>],
      [ctrl |-> <<2, 0>>, treat |-> <<2, 2>>],
      [ctrl |-> <<3, 0>>, treat |-> <<3, 3>>],
      [ctrl |-> <<2, 1>>, treat |-> <<2, 1>>],
      [ctrl |-> <<3, 3>>, treat |-> <<3, 3>>] }

\* df[segment_col].unique(): the labels in order of first appearance.
Orders(S) == {f \in [1..Cardinality(S) -> S] : \A i, j \in DOMAIN f : f[i] = f[j] => i = j}

\* A missing segment label (NaN); the other labels are the numbers 1, 2, ...
NaNLabel == 0

\* The rows of the missing label: df[df[segment_col] == seg] selects nothing,
\* NaN being unequal to itself.
NoRows == [ctrl |-> <<0, 0>>, treat |-> <<0, 0>>]

\* a < b between labels: false whenever one of them is NaN.
label_lt(a, b) == a # NaNLabel /\ b # NaNLabel /\ a < b

\* The end of the run the list begins with, n elements of it seen so far.
RECURSIVE RunEnd(_, _, _)
RunEnd(seq, n, descending) ==
    IF n = Len(seq) THEN n
    ELSE IF label_lt(seq[n + 1], seq[n]) = descending THEN RunEnd(seq, n + 1, descending)
    ELSE n

\* The sort's count_run: the length of the initial run, which is either
\* strictly descending or has no element below its predecessor.
count_run(seq) ==
    IF Len(seq) <= 1 THEN [n |-> Len(seq), descending |-> FALSE]
    ELSE LET descending == label_lt(seq[2], seq[1])
         IN  [n |-> RunEnd(seq, 2, descending), descending |-> descending]

\* The place of pivot among the first r elements, by bisection (places
\* counted from 0).
RECURSIVE Bisect(_, _, _, _)
Bisect(seq, pivot, l, r) ==
    IF l >= r THEN l
    ELSE LET p == l + (r - l) \div 2
         IN  IF label_lt(pivot, seq[p + 1]) THEN Bisect(seq, pivot, l, p)
             ELSE Bisect(seq, pivot, p + 1, r)

\* The sort's binarysort: the elements after the first start ones inserted
\* one by one.
RECURSIVE binarysort(_, _)
binarysort(seq, start) ==
    IF start >= Len(seq) THEN seq
    ELSE LET pivot == seq[start + 1]
             l == Bisect(seq, pivot, 0, start)
         IN  binarysort(SubSeq(seq, 1, l) \o <<pivot>> \o SubSeq(seq, l + 1, start)
                            \o SubSeq(seq, start + 2, Len(seq)),
                        start + 1)

\* sorted(segments), as Python sorts a list of fewer than 64 elements: the
\* initial run (reversed if descending), then binary insertion.
sorted(seq) ==
    LET run == count_run(seq)
        head == SubSeq(seq, 1, run.n)
    IN  binarysort((IF run.descending THEN Reverse(head) ELSE head)
                       \o SubSeq(seq, run.n + 1, Len(seq)),
                   run.n)

\* (mutant) the flags taken against the uncorrected alpha
UncorrectedAlpha(correction) == correction.original_alpha

\* adj_alpha = correction["adjusted_alpha"]
adj_alpha(correction) == correction.adjusted_alpha

\* Lines 204-206.
SegStart ==
    /\ sa_pc = "idle"
    /\ \E present \in SUBSET (1..MaxSeg \cup {NaNLabel}) :
       \E order \in Orders(present), data \in [present \ {NaNLabel} -> SegProfiles] :
          /\ df' = [order |-> order,
                    data |-> [s \in present |-> IF s = NaNLabel THEN NoRows ELSE data[s]]]
          /\ todo' = sorted(order)
    /\ results' = <<>>
    /\ p_values' = <<>>
    /\ results_df' = <<>>
    /\ sa_pc' = "loop"
    /\ UNCHANGED <<callvars, bayesvars, powervars>>

\* One iteration of the loop, lines 209-214.
SegTest ==
    /\ sa_pc = "loop"
    /\ todo # <<>>
    /\ LET seg == Head(todo)
           seg_df == df.data[seg]
           test == z_test(seg_df.ctrl, seg_df.treat)
           row == [ segment |-> seg,
                    n_total |-> seg_df.ctrl[1] + seg_df.treat[1],
                    test |-> test ]
       IN  /\ results' = Append(results, row)
           /\ p_values' = Append(p_values, test.p_value)
    /\ todo' = Tail(todo)
    /\ UNCHANGED <<sa_pc, df, results_df, callvars, bayesvars, powervars>>

\* Lines 216-223.
SegCorrect ==
    /\ sa_pc = "loop"
    /\ todo = <<>>
    /\ LET correction == bonferroni_correction(p_values, DefaultAlpha)
       IN  IF correction.exc # "none"
           THEN /\ sa_pc' = "raised"
                /\ results_df' = correction
           ELSE /\ sa_pc' = "done"
                /\ results_df' =
                     [i \in DOMAIN results |->
                        [ segment |-> results[i].segment,
                          n_total |-> results[i].n_total,
                          test |-> results[i].test,
                          p_value |-> results[i].test.p_value,
                          bonferroni_significant |->
                              FLt(results[i].test.p_value, Num(adj_alpha(correction))),
                          adjusted_alpha |-> adj_alpha(correction) ]]
    /\ UNCHANGED <<df, todo, results, p_values, callvars, bayesvars, powervars>>

SegReturn ==
    /\ sa_pc \in {"done", "raised"}
    /\ sa_pc' = "idle"
    /\ df' = [order |-> <<>>, data |-> <<>>]
    /\ todo' = <<>>
    /\ results' = <<>>
    /\ p_values' = <<>>
    /\ results_df' = <<>>
    /\ UNCHANGED <<callvars, bayesvars, powervars>>

SegNext ==
    \/ SegStart
    \/ SegTest
    \/ SegCorrect
    \/ SegReturn

SegSpec == Init /\ [][SegNext]_vars

-----------------------------------------------------------------------------
(* data_loader.py: clean_ab_data; ab_analysis/data/clean.py:               *)
(* clean_experiment_data                                                   *)

Users == {1, 2}
Groups == {"control", "treatment", "holdout"}
Pages == {"old_page", "new_page", "beta_page"}
Timestamps == {1, 2}
Countries == {"UK", "US"}

RawRows == [user_id : Users, group : Groups, landing_page : Pages,
            timestamp : Timestamps]
CountryRows == [user_id : Users, country : Countries]

\* The query of clean_ab_data, lines 43-48: the rows it drops.
Mismatched(r) ==
    \/ r.group = "treatment" /\ r.landing_page # "new_page"
    \/ r.group # "treatment" /\ r.landing_page = "new_page"
    \/ r.group = "control" /\ r.landing_page # "old_page"
    \/ r.group # "control" /\ r.landing_page = "old_page"

\* The mask of clean_experiment_data, lines 8-11: the rows it keeps.
Valid(r) ==
    \/ r.group = "control" /\ r.landing_page = "old_page"
    \/ r.group = "treatment" /\ r.landing_page = "new_page"

\* sort_values("timestamp"): the kept row positions in an order of ascending
\* timestamp.  The default sort is not stable, so rows of equal timestamp
\* come out in any order.
SortValues(raw, kept) ==
    {o \in Orders(kept) :
        \A i, j \in DOMAIN o : i < j => raw[o[i]].timestamp <= raw[o[j]].timestamp}

\* drop_duplicates("user_id", keep="last"): a position stays when no later one
\* of the order holds the same user.
RECURSIVE DropDuplicatesLast(_, _)
DropDuplicatesLast(raw, o) ==
    IF o = <<>> THEN <<>>
    ELSE IF \E j \in 2..Len(o) : raw[o[j]].user_id = raw[Head(o)].user_id
         THEN DropDuplicatesLast(raw, Tail(o))
         ELSE <<Head(o)>> \o DropDuplicatesLast(raw, Tail(o))

\* One left row joined with the country rows of its user, in their order; a
\* row with no country row is kept once with country NaN.
RECURSIVE JoinRow(_, _, _)
JoinRow(raw, i, countries) ==
    IF countries = <<>> THEN <<>>
    ELSE (IF Head(countries).user_id = raw[i].user_id
          THEN << [src |-> i, row |-> raw[i], country |-> Head(countries).country] >>
          ELSE <<>>) \o JoinRow(raw, i, Tail(countries))

\* merge(countries_df, on="user_id", how="left")
RECURSIVE MergeLeft(_, _, _)
MergeLeft(raw, o, countries) ==
    IF o = <<>> THEN <<>>
    ELSE LET joined == JoinRow(raw, Head(o), countries)
         IN  (IF joined = <<>>
              THEN << [src |-> Head(o), row |-> raw[Head(o)], country |-> "NaN"] >>
              ELSE joined) \o MergeLeft(raw, Tail(o), countries)

\* The data frames clean_ab_data may return.
clean_ab_data(raw, countries) ==
    LET kept == {i \in DOMAIN raw : ~Mismatched(raw[i])}
    IN  {MergeLeft(raw, DropDuplicatesLast(raw, o), countries) :
            o \in SortValues(raw, kept)}

\* The data frames clean_experiment_data may return.
clean_experiment_data(raw, countries) ==
    LET kept == {i \in DOMAIN raw : Valid(raw[i])}
    IN  {MergeLeft(raw, DropDuplicatesLast(raw, o), countries) :
            o \in SortValues(raw, kept)}

CleanABData ==
    /\ Idle
    /\ \E raw \in SeqsUpTo(RawRows, MaxRows),
          countries \in SeqsUpTo(CountryRows, MaxCountryRows) :
        /\ op' = "clean_ab_data"
        /\ args' = [df |-> raw, countries_df |-> countries]
        /\ out' \in clean_ab_data(raw, countries)
    /\ UNCHANGED <<savars, bayesvars, powervars>>

CleanExperimentData ==
    /\ Idle
    /\ \E raw \in SeqsUpTo(RawRows, MaxRows),
          countries \in SeqsUpTo(CountryRows, MaxCountryRows) :
        /\ op' = "clean_experiment_data"
        /\ args' = [df |-> raw, countries_df |-> countries]
        /\ out' \in clean_experiment_data(raw, countries)
    /\ UNCHANGED <<savars, bayesvars, powervars>>

CleanNext ==
    \/ CleanABData
    \/ CleanExperimentData
    \/ Return

CleanSpec == Init /\ [][CleanNext]_vars

-----------------------------------------------------------------------------
(* ab_analysis/data/validation.py: validate_experiment_data                *)

REQUIRED_AB_COLUMNS == <<"user_id", "timestamp", "group", "landing_page", "converted">>
REQUIRED_COUNTRY_COLUMNS == <<"user_id", "country">>

\* The elements of a list.
Range(seq) == {seq[i] : i \in DOMAIN seq}

\* A field left empty in the file is read as NaN, a float.
IsNaN(v) == v = "NaN"

\* Rows of an event table as they are validated: a clean control row, a clean
\* treatment row, a second row of user 1 shown the wrong page, a row of an
\* unknown group, a row with no group and an unknown page, a row with a
\* conversion count of 2.
ValidationRows ==
    { [user_id |-> 1, group |-> "control", landing_page |-> "old_page", converted |-> 0],
      [user_id |-> 2, group |-> "treatment", landing_page |-> "new_page", converted |-> 1],
      [user_id |-> 1, group |-> "control", landing_page |-> "new_page", converted |-> 1],
      [user_id |-> 2, group |-> "holdout", landing_page |-> "old_page", converted |-> 1],
      [user_id |-> 1, group |-> "NaN", landing_page |-> "beta_page", converted |-> 1],
      [user_id |-> 2, group |-> "treatment", landing_page |-> "new_page", converted |-> 2] }

\* Line 17: the required columns the table lacks, in the order required.
_missing_columns(columns, required) ==
    SelectSeq(required, LAMBDA col : col \notin columns)

\* The values of a column outside its allowed set (lines 33, 38-40, 45).
Invalid(rows, column, allowed) ==
    {rows[i][column] : i \in DOMAIN rows} \ allowed

\* sorted(set(...)) of such values: "<" between a NaN and a string raises
\* TypeError.
SortRaises(values) ==
    (\E v \in values : IsNaN(v)) /\ (\E v \in values : ~IsNaN(v))

\* One entry of errors, or none.
ErrorIf(found, check, what) ==
    IF found THEN <<[check |-> check, found |-> what]>> ELSE <<>>

\* Line 49: the rows whose user_id an earlier row holds.
Duplicated(rows) ==
    Cardinality({i \in DOMAIN rows : \E j \in 1..(i - 1) : rows[j].user_id = rows[i].user_id})

\* Lines 50-55.
Mismatches(rows) ==
    Cardinality({i \in DOMAIN rows :
        \/ rows[i].group = "control" /\ rows[i].landing_page # "old_page"
        \/ rows[i].group = "treatment" /\ rows[i].landing_page # "new_page"})

\* Lines 21-76.  ab_columns and country_columns are the columns the two tables
\* have, ab_rows the rows of the first and country_users the user_id column
\* of the second; a column a table lacks cannot be read: df[column] raises
\* KeyError.
validate_experiment_data(ab_columns, ab_rows, country_columns, country_users) ==
    LET missing_ab == _missing_columns(ab_columns, REQUIRED_AB_COLUMNS)
        missing_country == _missing_columns(country_columns, REQUIRED_COUNTRY_COLUMNS)
        invalid_group ==
            IF "group" \in ab_columns
            THEN Invalid(ab_rows, "group", {"control", "treatment"}) ELSE {}
        invalid_page ==
            IF "landing_page" \in ab_columns
            THEN Invalid(ab_rows, "landing_page", {"old_page", "new_page"}) ELSE {}
        invalid_conv ==
            IF "converted" \in ab_columns
            THEN Invalid(ab_rows, "converted", {0, 1}) ELSE {}
        errors ==
            ErrorIf(missing_ab # <<>>, "ab_data missing columns", Range(missing_ab))
            \o ErrorIf(missing_country # <<>>, "countries_data missing columns",
                       Range(missing_country))
            \o ErrorIf(invalid_group # {}, "invalid group values", invalid_group)
            \o ErrorIf(invalid_page # {}, "invalid landing_page values", invalid_page)
            \o ErrorIf(invalid_conv # {}, "invalid converted values", invalid_conv)
        ab_users == {ab_rows[i].user_id : i \in DOMAIN ab_rows}
    IN  IF SortRaises(invalid_group) \/ SortRaises(invalid_page) THEN Raised("TypeError")
        ELSE IF {"group", "landing_page"} \ ab_columns # {} THEN Raised("KeyError")
        ELSE IF "user_id" \notin ab_columns \/ "user_id" \notin country_columns
        THEN Raised("KeyError")
        ELSE IF errors # <<>> THEN [exc |-> "DataValidationError", errors |-> errors]
        ELSE [ exc |-> "none",
               row_count_ab |-> Len(ab_rows),
               row_count_countries |-> Len(country_users),
               duplicate_users_ab |-> Duplicated(ab_rows),
               mismatch_rows |-> Mismatches(ab_rows),
               users_missing_country |-> Cardinality(ab_users \ Range(country_users)),
               country_users_missing_ab |-> Cardinality(Range(country_users) \ ab_users),
               errors |-> errors ]

CallValidate ==
    /\ Idle
    /\ \E ab_columns \in SUBSET Range(REQUIRED_AB_COLUMNS),
          ab_rows \in SeqsUpTo(ValidationRows, MaxRows),
          country_columns \in SUBSET Range(REQUIRED_COUNTRY_COLUMNS),
          country_users \in SeqsUpTo(Users, MaxCountryRows) :
        /\ op' = "validate_experiment_data"
        /\ args' = [ab_columns |-> ab_columns, ab_rows |-> ab_rows,
                    country_columns |-> country_columns, country_users |-> country_users]
        /\ out' = validate_experiment_data(ab_columns, ab_rows, country_columns,
                                           country_users)
    /\ UNCHANGED <<savars, bayesvars, powervars>>

ValidateNext ==
    \/ CallValidate
    \/ Return

ValidateSpec == Init /\ [][ValidateNext]_vars

-----------------------------------------------------------------------------
(* statistics.py: bayesian_ab_test                                         *)
(*                                                                         *)
(* Several calls are in progress at once, each at its own statement.  A    *)
(* numpy RandomState is modelled by what the function relies on: the seed  *)
(* fixes the first state of the stream, every variate drawn moves the      *)
(* stream to its next state, and a variate is a function of the state it   *)
(* was drawn at and of the distribution's parameters.  Beta variates are   *)
(* hundredths; prior parameters are whole numbers.                         *)

StreamStates == 2 ^ 3
Grid == 10 ^ 2

\* A live stream is <<its state>>.
RandomState(seed) == <<seed % StreamStates>>

NextState(s) == (5 * s + 3) % StreamStates

RECURSIVE Advance(_, _)
Advance(s, i) == IF i = 0 THEN s ELSE Advance(NextState(s), i - 1)

BetaVariate(s, a, b) ==
    (Grid * a * (s + 1)) \div (a * (s + 1) + b * (StreamStates - s))

\* rng.beta(a, b, size): numpy rejects a <= 0 and b <= 0 with ValueError;
\* otherwise size variates and the stream as it is left.
beta(rng, a, b, size) ==
    IF a <= 0 \/ b <= 0 THEN [exc |-> "ValueError"]
    ELSE [ exc |-> "none",
           draws |-> [i \in 1..size |-> BetaVariate(Advance(rng[1], i - 1), a, b)],
           rng |-> <<Advance(rng[1], size)>> ]

DefaultSeed == 42      \* seed: int = 42
Seeds == {DefaultSeed, 7}

\* Experiments handed to the function: conversions within the trials of both
\* arms; conv_ctrl > n_ctrl with prior_beta + n_ctrl - conv_ctrl = 0;
\* conv_treat > n_treat likewise; conv_ctrl > n_ctrl with prior_beta = 2.0,
\* where prior_beta + n_ctrl - conv_ctrl is still positive.
Experiments == {
    [n_ctrl |-> 2, conv_ctrl |-> 1, n_treat |-> 2, conv_treat |-> 2, prior_beta |-> 1],
    [n_ctrl |-> 1, conv_ctrl |-> 2, n_treat |-> 2, conv_treat |-> 1, prior_beta |-> 1],
    [n_ctrl |-> 2, conv_ctrl |-> 1, n_treat |-> 1, conv_treat |-> 2, prior_beta |-> 1],
    [n_ctrl |-> 1, conv_ctrl |-> 2, n_treat |-> 2, conv_treat |-> 1, prior_beta |-> 2] }

BayesArgs ==
    {e @@ [n_samples |-> 2, prior_alpha |-> 1, seed |-> sd] :
        e \in Experiments, sd \in Seeds}

\* (mutant) one generator for all calls
SharedGenerator(c) == 1

\* rng = np.random.RandomState(seed): the generator a call draws from is an
\* object the call itself constructs.
Generator(c) == c

\* Lines 155-174: the summary of the two arrays of draws.
Summary(a, post_ctrl, post_treat) ==
    LET diff == [i \in 1..a.n_samples |-> post_treat[i] - post_ctrl[i]]
        k == Cardinality({i \in 1..a.n_samples : diff[i] > 0})
    IN  probabilities(k, a.n_samples)
        @@ [posterior_ctrl_samples |-> post_ctrl, posterior_treat_samples |-> post_treat]

\* Line 141.
BayesStart ==
    \E c \in 1..MaxCalls :
        /\ calls[c].pc = "idle"
        /\ \E a \in BayesArgs :
            /\ calls' = [calls EXCEPT ![c] = [pc |-> "seeded", args |-> a]]
            /\ rngs' = [rngs EXCEPT ![Generator(c)] = RandomState(a.seed)]
        /\ UNCHANGED <<callvars, savars, powervars>>

\* Lines 144-148.
DrawCtrl ==
    \E c \in 1..MaxCalls :
        /\ calls[c].pc = "seeded"
        /\ rngs[Generator(c)] # NoStream
        /\ LET a == calls[c].args
               r == beta(rngs[Generator(c)], a.prior_alpha + a.conv_ctrl,
                         a.prior_beta + a.n_ctrl - a.conv_ctrl, a.n_samples)
           IN  IF r.exc # "none"
               THEN /\ calls' = [calls EXCEPT ![c] =
                                    [pc |-> "raised", args |-> a, exc |-> r.exc]]
                    /\ rngs' = rngs
               ELSE /\ calls' = [calls EXCEPT ![c] =
                                    [pc |-> "ctrl", args |-> a, post_ctrl |-> r.draws]]
                    /\ rngs' = [rngs EXCEPT ![Generator(c)] = r.rng]
        /\ UNCHANGED <<callvars, savars, powervars>>

\* Lines 149-174.
DrawTreat ==
    \E c \in 1..MaxCalls :
        /\ calls[c].pc = "ctrl"
        /\ rngs[Generator(c)] # NoStream
        /\ LET a == calls[c].args
               r == beta(rngs[Generator(c)], a.prior_alpha + a.conv_treat,
                         a.prior_beta + a.n_treat - a.conv_treat, a.n_samples)
           IN  IF r.exc # "none"
               THEN /\ calls' = [calls EXCEPT ![c] =
                                    [pc |-> "raised", args |-> a, exc |-> r.exc]]
                    /\ rngs' = rngs
               ELSE /\ calls' = [calls EXCEPT ![c] =
                                    [pc |-> "done", args |-> a, exc |-> "none",
                                     result |-> Summary(a, calls[c].post_ctrl, r.draws)]]
                    /\ rngs' = [rngs EXCEPT ![Generator(c)] = r.rng]
        /\ UNCHANGED <<callvars, savars, powervars>>

\* The caller takes the result or the exception; the call's frame and its
\* generator are gone.
BayesReturn ==
    \E c \in 1..MaxCalls :
        /\ calls[c].pc \in {"done", "raised"}
        /\ calls' = [calls EXCEPT ![c] = NoCall]
        /\ rngs' = [rngs EXCEPT ![Generator(c)] = NoStream]
        /\ UNCHANGED <<callvars, savars, powervars>>

BayesNext ==
    \/ BayesStart
    \/ DrawCtrl
    \/ DrawTreat
    \/ BayesReturn

BayesSpec == Init /\ [][BayesNext]_vars

-----------------------------------------------------------------------------
(* statistics.py: power_analysis                                           *)
(*                                                                         *)
(* A caller makes a call and may follow it by a second one for the same    *)
(* baseline rate: after a sample size was computed, the search for the     *)
(* effect detectable with that size; after a search, the search with a     *)
(* larger size.  alpha and power are left at 0.05 and 0.80.                *)

DefaultPower == 800000     \* power: float = 0.80

z_alpha == norm_ppf(Micro - DefaultAlpha \div 2)
z_beta == norm_ppf(DefaultPower)

\* Baseline rates (thousandths), effects (micro units) and sample sizes.
Baselines == {120, 500, 990}
Mdes == {1000, 10000, 50000, 90000}
Sizes == {1, 10000, 10001, 100000, 10 ^ 9}

PowerArgs(baseline_rate, mde, n_per_group) ==
    [baseline_rate |-> baseline_rate, mde |-> mde, n_per_group |-> n_per_group]

\* What a caller asks first, and what it may ask next.
FirstArgs ==
    {PowerArgs(b, Some(m), None) : b \in Baselines, m \in Mdes}
    \cup {PowerArgs(b, None, Some(n)) : b \in Baselines, n \in Sizes}
    \cup {PowerArgs(120, Some(10000), Some(10000)), PowerArgs(120, None, None)}

FollowUps(prev) ==
    IF prev.args.n_per_group # None
    THEN {PowerArgs(prev.args.baseline_rate, None, Some(n)) :
            n \in {m \in Sizes : m > prev.args.n_per_group[1]}}
    ELSE IF "required_n_per_group" \in DOMAIN prev.results
    THEN {PowerArgs(prev.args.baseline_rate, None,
                    Some(prev.results["required_n_per_group"]))}
    ELSE {}

\* (mutant) the comparison turned round
FallsShort(baseline_rate, mid, n_per_group) ==
    ~n_needed_exceeds(baseline_rate, mid, z_alpha, z_beta, n_per_group)

\* if n_needed > n_per_group
Exceeds(baseline_rate, mid, n_per_group) ==
    n_needed_exceeds(baseline_rate, mid, z_alpha, z_beta, n_per_group)

\* Lines 88-107: the results dictionary, the sample size when mde is given,
\* and the start of the search when n_per_group is given.
PowerStart ==
    /\ pa.pc = "idle"
    /\ \E a \in (IF pa_prev = None THEN FirstArgs ELSE FollowUps(pa_prev[1])) :
        LET base == [k \in {"baseline_rate", "alpha", "power"} |->
                        CASE k = "baseline_rate" -> a.baseline_rate
                          [] k = "alpha" -> DefaultAlpha
                          [] k = "power" -> DefaultPower]
            req == IF a.mde = None THEN [exc |-> "none"]
                   ELSE required_n_per_group(a.baseline_rate, a.mde[1], z_alpha, z_beta)
            forward == IF a.mde = None THEN base
                       ELSE base @@ [k \in {"mde", "required_n_per_group", "required_n_total"} |->
                                        CASE k = "mde" -> a.mde[1]
                                          [] k = "required_n_per_group" -> req.n
                                          [] k = "required_n_total" -> req.n * 2]
        IN  IF req.exc # "none"
            THEN pa' = [pc |-> "raised", args |-> a, exc |-> req.exc]
            ELSE IF a.n_per_group = None
            THEN pa' = [pc |-> "done", args |-> a, exc |-> "none", results |-> forward]
            ELSE pa' = [pc |-> "loop", args |-> a, i |-> 0, lo |-> SearchLo,
                        hi |-> SearchHi, mid |-> None,
                        results |-> forward @@ [k \in {"n_per_group"} |-> a.n_per_group[1]]]
    /\ UNCHANGED <<pa_prev, callvars, savars, bayesvars>>

\* Lines 109-120: one pass of the loop.
PowerStep ==
    /\ pa.pc = "loop"
    /\ pa.i < Iterations
    /\ LET mid == Midpoint(pa.lo, pa.hi)
       IN  pa' = IF Exceeds(pa.args.baseline_rate, mid, pa.args.n_per_group[1])
                 THEN [pa EXCEPT !.i = @ + 1, !.mid = mid, !.lo = mid]
                 ELSE [pa EXCEPT !.i = @ + 1, !.mid = mid, !.hi = mid]
    /\ UNCHANGED <<pa_prev, callvars, savars, bayesvars>>

\* Lines 121-124: the loop is over.
PowerFinish ==
    /\ pa.pc = "loop"
    /\ pa.i = Iterations
    /\ pa' = [pc |-> "done", args |-> pa.args, exc |-> "none",
              results |-> pa.results @@
                  [k \in {"detectable_mde", "detectable_mde_pct"} |->
                      CASE k = "detectable_mde" -> Round6(pa.mid)
                        [] k = "detectable_mde_pct" ->
                              detectable_mde_pct(pa.mid, pa.args.baseline_rate)]]
    /\ UNCHANGED <<pa_prev, callvars, savars, bayesvars>>

\* The caller has the result; a first call is remembered, a second one ends
\* the caller's work.
PowerReturn ==
    /\ pa.pc \in {"done", "raised"}
    /\ pa' = NoCall
    /\ pa_prev' = IF pa_prev = None /\ pa.pc = "done"
                  THEN Some([args |-> pa.args, results |-> pa.results])
                  ELSE None
    /\ UNCHANGED <<callvars, savars, bayesvars>>

PowerNext ==
    \/ PowerStart
    \/ PowerStep
    \/ PowerFinish
    \/ PowerReturn

PowerSpec == Init /\ [][PowerNext]_vars

-----------------------------------------------------------------------------
(* Claims *)

Returned(f) == op = f /\ out.exc = "none"

\* C1 as stated: bonferroni_correction reports n_tests = len(p_values) and
\* adjusted_alpha = alpha / n_tests exactly (below alpha for n_tests > 1, alpha
\* itself for n_tests = 1), and flags the i-th p-value exactly when
\* p_i < alpha / n_tests.
C1_AdjustedAlphaIsExactQuotient ==
    Returned("bonferroni_correction") =>
        LET n == Len(args.p_values) IN
        /\ out.n_tests = n
        /\ out.adjusted_alpha * n = args.alpha
        /\ (n > 1 => out.adjusted_alpha < args.alpha)
        /\ (n = 1 => out.adjusted_alpha = args.alpha)
        /\ DOMAIN out.results = 1..n
        /\ \A i \in 1..n :
              out.results[i].significant <=>
                  (~args.p_values[i].nan /\ args.p_values[i].v * n < args.alpha)

\* C1, amended: the reported adjusted_alpha is alpha / n_tests rounded to six
\* decimals (within half a millionth of the quotient; below alpha for
\* n_tests > 1, alpha itself for n_tests = 1), while the i-th flag is decided
\* on the unrounded quotient, p_i < alpha / n_tests, and the i-th result is the
\* i-th input (its p-value rounded to four decimals).
C1_Bonferroni ==
    Returned("bonferroni_correction") =>
        LET n == Len(args.p_values) IN
        /\ out.n_tests = n
        /\ out.original_alpha = args.alpha
        /\ 2 * Abs(out.adjusted_alpha * n - args.alpha) <= n
        /\ (n > 1 => out.adjusted_alpha < args.alpha)
        /\ (n = 1 => out.adjusted_alpha = args.alpha)
        /\ DOMAIN out.results = 1..n
        /\ \A i \in 1..n :
              LET p == args.p_values[i]
                  r == out.results[i]
              IN  /\ r.significant <=> (~p.nan /\ p.v * n < args.alpha)
                  /\ r.p_value.nan = p.nan
                  /\ ~p.nan => /\ r.p_value.v % 100 = 0
                               /\ 2 * Abs(r.p_value.v - p.v) <= 100

\* The repository's test: [0.02, 0.03] at 0.05 gives 0.025, significant, not.
C1_Witness ==
    /\ Returned("bonferroni_correction")
    /\ args.p_values = <<Num(20000), Num(30000)>>
    /\ args.alpha = 50000
    /\ out.adjusted_alpha = 25000
    /\ out.results[1].significant
    /\ ~out.results[2].significant


ProportionTests == {"z_test", "run_ab_test"}

\* C3: z_test and run_ab_test fail with InsufficientDataError whenever the
\* control group or the treatment group has no rows, and return no record.
C3_EmptyGroupRaisesInsufficientData ==
    (op \in ProportionTests /\ (args.ctrl[1] = 0 \/ args.treat[1] = 0)) =>
        out.exc = "InsufficientDataError"

\* C4: with a control conversion rate of 0, z_test and run_ab_test either
\* raise or report a relative lift flagged as undefined, never a number.
C4_ZeroControlRateIsNotDefaulted ==
    (op \in ProportionTests /\ args.ctrl[1] > 0 /\ args.ctrl[2] = 0) =>
        \/ out.exc # "none"
        \/ op = "z_test" /\ out.relative_diff_pct.nan

\* The segments of the data frame and the rows reported for one of them.
Present == {df.order[i] : i \in DOMAIN df.order}
RowsOf(s) == {i \in DOMAIN results_df : results_df[i].segment = s}
LacksGroup(s) == df.data[s].ctrl[1] = 0 \/ df.data[s].treat[1] = 0

\* C2 as stated: every row of segment_analysis carries adjusted_alpha =
\* alpha / (number of distinct segments) exactly, and its flag is true exactly
\* when the segment's p_value < adjusted_alpha, as bonferroni_correction
\* reports for that p-value.  Stated here for data frames in which every segment
\* has control and treatment rows.
C2_RowsCarryExactQuotient ==
    (sa_pc = "done" /\ \A s \in Present : ~LacksGroup(s)) =>
        LET n == Cardinality(Present) IN
        \A i \in DOMAIN results_df :
            LET row == results_df[i] IN
            /\ row.adjusted_alpha * n = DefaultAlpha
            /\ row.bonferroni_significant <=>
                   (~row.p_value.nan /\ row.p_value.v < row.adjusted_alpha)
            /\ row.bonferroni_significant =
                   bonferroni_correction(p_values, DefaultAlpha).results[i].significant

\* C2, amended: n_tests is the number of distinct segments; every row carries
\* adjusted_alpha = 0.05 / n_tests rounded to six decimals, and its flag is
\* true exactly when the segment's four-decimal p_value is below that rounded
\* value, which is what bonferroni_correction reports for the same p-value.
C2_SegmentBonferroni ==
    sa_pc = "done" =>
        LET n == Cardinality(Present) IN
        /\ Len(results_df) = n
        /\ \A i \in DOMAIN results_df :
            LET row == results_df[i]
                seg_df == df.data[row.segment]
            IN  /\ row.segment \in Present
                /\ row.p_value = z_test(seg_df.ctrl, seg_df.treat).p_value
                /\ 2 * Abs(row.adjusted_alpha * n - DefaultAlpha) <= n
                /\ row.bonferroni_significant <=>
                       (~row.p_value.nan /\ row.p_value.v < row.adjusted_alpha)
                /\ row.bonferroni_significant <=>
                       (~row.p_value.nan /\ row.p_value.v * n < DefaultAlpha)
                /\ row.bonferroni_significant =
                       bonferroni_correction(p_values, DefaultAlpha).results[i].significant

\* Three segments: p = 0.0143 is below 0.016667 and flagged, p = 0.0455 is
\* below 0.05 but not flagged.
C2_Witness ==
    /\ sa_pc = "done"
    /\ Cardinality(Present) = 3
    /\ \E i, j \in DOMAIN results_df :
          /\ results_df[i].adjusted_alpha = 16667
          /\ results_df[i].p_value = Num(14300)
          /\ results_df[i].bonferroni_significant
          /\ results_df[j].p_value = Num(45500)
          /\ ~results_df[j].bonferroni_significant

\* C5: a segment with no control rows or no treatment rows is left out of the
\* result rows (recorded as excluded), every other segment is reported, and
\* the analysis is not aborted.
C5_SegmentWithoutGroupIsExcluded ==
    (sa_pc \in {"done", "raised"} /\ Present # {}) =>
        /\ sa_pc = "done"
        /\ \A s \in Present :
              IF LacksGroup(s) THEN RowsOf(s) = {}
              ELSE Cardinality(RowsOf(s)) = 1

Cleaners == {"clean_ab_data", "clean_experiment_data"}

\* The rows of the result that hold user u, and u's raw rows whose group and
\* page match.
OutRowsOf(u) == {k \in DOMAIN out : out[k].row.user_id = u}
MatchedRowsOf(u) == {i \in DOMAIN args.df : args.df[i].user_id = u /\ Valid(args.df[i])}

\* C6: after cleaning, every user of the result has exactly one row, every
\* user with a matched raw row appears exactly once, and the row kept is a
\* matched row of that user with the latest timestamp.  Stated here for raw
\* tables whose groups and pages are all known values.
C6_OneRowPerUser ==
    (op \in Cleaners /\ \A i \in DOMAIN args.df :
                            /\ args.df[i].group \in {"control", "treatment"}
                            /\ args.df[i].landing_page \in {"old_page", "new_page"}) =>
        \A u \in Users :
            IF MatchedRowsOf(u) = {} THEN OutRowsOf(u) = {}
            ELSE /\ Cardinality(OutRowsOf(u)) = 1
                 /\ \A k \in OutRowsOf(u) :
                       /\ out[k].src \in MatchedRowsOf(u)
                       /\ \A i \in MatchedRowsOf(u) :
                             args.df[i].timestamp <= out[k].row.timestamp

\* C7: after cleaning, every row is (control, old_page) or (treatment,
\* new_page), and both cleaners return the same rows for the same input.
C7_OnlyMatchedPairsSurvive ==
    op \in Cleaners =>
        /\ \A k \in DOMAIN out : Valid(out[k].row)
        /\ out \in clean_ab_data(args.df, args.countries_df)
        /\ out \in clean_experiment_data(args.df, args.countries_df)

\* C8 as stated: prob_treatment_better and prob_control_better lie in [0, 1]
\* and sum to exactly 1.
C8_ProbabilitiesSumToOne ==
    Returned("probabilities") =>
        /\ out.prob_treatment_better \in 0..TenK
        /\ out.prob_control_better \in 0..TenK
        /\ out.prob_treatment_better + out.prob_control_better = TenK

\* 10^4 * k / n_samples lies exactly halfway between two integers.
DecimalTie == (2 * TenK * args.k) % args.n_samples = 0
              /\ ((2 * TenK * args.k) \div args.n_samples) % 2 = 1

\* C8, amended: both probabilities lie in [0, 1]; each is the four-decimal
\* rounding of the fraction k / n_samples and of its complement, so they sum
\* to 1 within one unit of the fourth decimal, and to exactly 1 unless
\* 10^4 * k / n_samples is halfway between two integers.
C8_ProbabilitiesComplementary ==
    Returned("probabilities") =>
        /\ out.prob_treatment_better \in 0..TenK
        /\ out.prob_control_better \in 0..TenK
        /\ 2 * Abs(out.prob_treatment_better * args.n_samples - TenK * args.k)
              <= args.n_samples
        /\ Abs(out.prob_treatment_better + out.prob_control_better - TenK) <= 1
        /\ ~DecimalTie => out.prob_treatment_better + out.prob_control_better = TenK

\* 15 of 100000: 0.00015 and 0.99985 are reported as 0.0001 and 0.9998.
C8_Witness ==
    /\ Returned("probabilities")
    /\ args = [k |-> 15, n_samples |-> DefaultSamples]
    /\ out.prob_treatment_better = 1
    /\ out.prob_control_better = 9998

\* A call of bayesian_ab_test that has come to its end, either way.
Finished(c) == calls[c].pc \in {"done", "raised"}

\* C9: two calls of bayesian_ab_test with the same arguments and the same seed
\* end the same way, with identical draws and identical summaries, whatever
\* other calls (with any seeds) ran before them or run at the same time.
C9_SameSeedSameResult ==
    \A c, d \in 1..MaxCalls :
        (Finished(c) /\ Finished(d) /\ calls[c].args = calls[d].args) =>
            calls[c] = calls[d]

\* C9's case: two calls with the same arguments and seed have both returned
\* their draws while a call with another seed is between its two draws.
C9_Witness ==
    \E c, d, e \in 1..MaxCalls :
        /\ c # d
        /\ calls[c].pc = "done" /\ calls[d].pc = "done"
        /\ calls[c].args = calls[d].args
        /\ calls[c].result.posterior_ctrl_samples # calls[c].result.posterior_treat_samples
        /\ calls[e].pc = "ctrl"
        /\ calls[e].args.seed # calls[c].args.seed

\* Conversions exceed trials for an arm.
ExcessConversions(a) == a.conv_ctrl > a.n_ctrl \/ a.conv_treat > a.n_treat

\* C10 as stated: whenever conversions exceed trials for either arm, whatever
\* the prior, bayesian_ab_test fails with an error and returns no posterior
\* summary.
C10_ExcessConversionsRaise ==
    \A c \in 1..MaxCalls :
        (Finished(c) /\ ExcessConversions(calls[c].args)) => calls[c].pc = "raised"

\* C14: holm_correction returns, at each input position i,
\* min(1, (n - rank_i) * p_i), rank_i being the 0-based position of p_i among
\* the p-values sorted ascending; the output is as long as the input, in input
\* order, and every adjusted value lies between p_i and 1.
C14_HolmAdjusted ==
    Returned("holm_correction") =>
        LET pvals == args.p_values
            n == Len(pvals)
        IN  /\ Len(out.adjusted) = n
            /\ \E rank \in [1..n -> 0..(n - 1)] :
                /\ \A i, j \in 1..n : i # j => rank[i] # rank[j]
                /\ \A i, j \in 1..n : pvals[i] < pvals[j] => rank[i] < rank[j]
                /\ \A i \in 1..n :
                      out.adjusted[i] = Min(Micro, (n - rank[i]) * pvals[i])
            /\ \A i \in 1..n : pvals[i] <= out.adjusted[i] /\ out.adjusted[i] <= Micro

\* C14's case: three p-values out of order, the largest first.
C14_Witness ==
    /\ Returned("holm_correction")
    /\ args.p_values = <<400000, 10000, 20000>>
    /\ out.adjusted = <<400000, 30000, 40000>>

\* C15: interpret_effect_size labels by |h| only: below 0.2 Negligible, from
\* 0.2 below 0.5 Small, from 0.5 below 0.8 Medium, from 0.8 Large; h and -h
\* get the same label, 0 is Negligible, the boundaries fall in the higher
\* class.
C15_LabelByMagnitude ==
    Returned("interpret_effect_size") =>
        LET a == Abs(args.h) IN
        /\ (out.label = "Negligible") = (a < 2000)
        /\ (out.label = "Small") = (2000 <= a /\ a < 5000)
        /\ (out.label = "Medium") = (5000 <= a /\ a < 8000)
        /\ (out.label = "Large") = (8000 <= a)
        /\ out.label = interpret_effect_size(-args.h)

\* C15's case: the boundary -0.2 is labelled Small.
C15_Witness ==
    /\ Returned("interpret_effect_size")
    /\ args.h = -2000
    /\ out.label = "Small"

\* C16 as stated: cohens_h is antisymmetric, cohens_h(p, p) = 0, and
\* cohens_h(p1, p2) > 0 whenever p1 > p2.
C16_PositiveWheneverLarger ==
    Returned("cohens_h") =>
        /\ out.h = -cohens_h(args.p2, args.p1)
        /\ args.p1 = args.p2 => out.h = 0
        /\ args.p1 > args.p2 => out.h > 0

\* C16, amended: cohens_h(p1, p2) = -cohens_h(p2, p1), cohens_h(p, p) = 0, and
\* for p1 > p2 the result is never negative; it is positive when the unrounded
\* 2 (arcsin sqrt p1 - arcsin sqrt p2) is above 0.00005 and 0.0 when it is
\* below, the result being rounded to four decimals.
C16_AntisymmetricUpToRounding ==
    Returned("cohens_h") =>
        /\ out.h = -cohens_h(args.p2, args.p1)
        /\ args.p1 = args.p2 => out.h = 0
        /\ args.p1 > args.p2 =>
              /\ out.h >= 0
              /\ 2 * RawH(args.p1, args.p2) > TenK => out.h > 0
              /\ 2 * RawH(args.p1, args.p2) < TenK => out.h = 0

\* C16's case: 0.50001 against 0.5 gives 0.0, and 0.5 against 0.4 a positive h.
C16_Witness ==
    /\ Returned("cohens_h")
    /\ \/ args = [p1 |-> 50001, p2 |-> 50000] /\ out.h = 0
       \/ args = [p1 |-> 50000, p2 |-> 40000] /\ out.h = 2014

\* C17: when control and treatment have the same number n >= 1 of rows and the
\* same number of conversions (0 to n), z_test reports absolute_diff = 0 and
\* a p_value above 0.5.
C17_IdenticalGroupsPValueAboveHalf ==
    (op = "z_test" /\ args.ctrl = args.treat /\ args.ctrl[1] >= 1) =>
        /\ out.exc = "none"
        /\ out.absolute_diff = Num(0)
        /\ FGt(out.p_value, Num(500000))

\* The alternatives the specification names.
SpecAlternatives == {"two-sided", "greater", "less"}

\* C18: for data on which the rates and the relative lift are defined,
\* run_ab_test succeeds for every alternative among two-sided, greater and
\* less (and returns the same two-sided interval for each).
C18_EveryAlternativeSucceeds ==
    (/\ op = "run_ab_test"
     /\ args.alternative \in SpecAlternatives
     /\ args.ctrl[1] > 0 /\ args.treat[1] > 0 /\ args.ctrl[2] > 0) =>
        out.exc = "none"

\* The chi-square goodness-of-fit statistic of the observed counts against
\* expected_split * total: the sum of (observed - expected)^2 / expected.
GoodnessOfFit(control, treatment, split) ==
    LET total == control + treatment
        e1 == split[1] * total
        e2 == split[2] * total
        d1 == Quarters * control - e1
        d2 == Quarters * treatment - e2
    IN  Reduced(d1 * d1 * e2 + d2 * d2 * e1, Quarters * e1 * e2)

\* C19: srm_check's chi2 is the goodness-of-fit statistic of the observed
\* counts against the expected counts, 0 when they are equal.
C19_Chi2IsGoodnessOfFit ==
    (op = "srm_check" /\ args.control + args.treatment > 0) =>
        /\ out.exc = "none"
        /\ out.chi2 = GoodnessOfFit(args.control, args.treatment, args.expected_split)

\* A call of power_analysis has returned its results.
PowerDone == pa.pc = "done"
Solved(key) == key \in DOMAIN pa.results

\* C11: every power_analysis call solves one direction: exactly one of mde and
\* n_per_group is supplied and the result holds exactly one of
\* required_n_per_group and detectable_mde; a call supplying both or neither
\* is not accepted.
C11_ExactlyOneDirection ==
    PowerDone =>
        /\ (pa.args.mde = None) # (pa.args.n_per_group = None)
        /\ Solved("required_n_per_group") # Solved("detectable_mde")

\* The call before was a search for the detectable effect with fewer samples,
\* and so is this one, now returned.
LargerSample ==
    /\ PowerDone /\ pa_prev # None
    /\ pa.args.mde = None /\ pa_prev[1].args.mde = None
    /\ pa_prev[1].args.n_per_group # None
    /\ pa_prev[1].args.baseline_rate = pa.args.baseline_rate
    /\ pa_prev[1].args.n_per_group[1] < pa.args.n_per_group[1]

\* C12 as stated: for a fixed baseline, whenever n1 < n2 the detectable_mde
\* returned for n2 is smaller than the one returned for n1.
C12_StrictlyDecreasing ==
    LargerSample =>
        pa.results["detectable_mde"] < pa_prev[1].results["detectable_mde"]

\* C12, amended: whenever n1 < n2 the detectable_mde returned for n2 is not
\* larger than the one returned for n1; for a baseline of 0.12 and the sizes
\* 10000 and 100000 it is smaller.
C12_NeverIncreasing ==
    LargerSample =>
        /\ pa.results["detectable_mde"] <= pa_prev[1].results["detectable_mde"]
        /\ (/\ pa.args.baseline_rate = 120
            /\ pa_prev[1].args.n_per_group[1] = 10000
            /\ pa.args.n_per_group[1] = 100000) =>
              pa.results["detectable_mde"] < pa_prev[1].results["detectable_mde"]

\* C12's case: 10000 and 10001 samples at a baseline of 0.12 give the same
\* detectable_mde.
C12_Witness ==
    /\ LargerSample
    /\ pa_prev[1].args.n_per_group[1] = 10000
    /\ pa.args.n_per_group[1] = 10001
    /\ pa.results["detectable_mde"] = 13173
    /\ pa_prev[1].results["detectable_mde"] = 13173

\* The call before computed the sample size for an effect, and this one, now
\* returned, searched the effect detectable with that size.
RoundTrip ==
    /\ PowerDone /\ pa_prev # None
    /\ pa_prev[1].args.mde # None /\ pa_prev[1].args.n_per_group = None
    /\ pa.args.mde = None
    /\ pa.args.baseline_rate = pa_prev[1].args.baseline_rate
    /\ pa.args.n_per_group = Some(pa_prev[1].results["required_n_per_group"])

SearchInRange ==
    /\ pa.pc = "loop" =>
          /\ pa.i \in 0..Iterations
          /\ DLe(SearchLo, pa.lo) /\ DLe(pa.lo, pa.hi) /\ DLe(pa.hi, SearchHi)
          /\ pa.i > 0 => DLe(pa.lo, pa.mid) /\ DLe(pa.mid, pa.hi)
    /\ (PowerDone /\ Solved("detectable_mde")) =>
          pa.results["detectable_mde"] \in 100..100000

\* One pass of the loop: mid lies between lo and hi, lo is raised to mid when
\* the size needed at mid exceeds n_per_group and hi is lowered to mid
\* otherwise; the loop is left after pass 100 only.
SearchStep ==
    /\ (pa.pc = "loop" /\ pa'.pc = "loop" /\ pa' # pa) =>
          /\ pa'.i = pa.i + 1
          /\ DLe(pa.lo, pa'.mid) /\ DLe(pa'.mid, pa.hi)
          /\ IF Exceeds(pa.args.baseline_rate, pa'.mid, pa.args.n_per_group[1])
             THEN pa'.lo = pa'.mid /\ pa'.hi = pa.hi
             ELSE pa'.lo = pa.lo /\ pa'.hi = pa'.mid
    /\ (pa.pc = "loop" /\ pa'.pc # "loop") => pa.i = Iterations /\ pa'.pc = "done"

\* A pass cuts the interval in two: mid lies strictly inside it.
ProperCut ==
    (pa.pc = "loop" /\ pa'.pc = "loop" /\ pa' # pa) =>
        DLt(pa.lo, pa'.mid) /\ DLt(pa'.mid, pa.hi)

\* Some double lies strictly between lo and hi.
RoomBetween == pa.pc = "loop" /\ DLt(NextUp(pa.lo), pa.hi)

\* C20 as stated (a pass being a finite computation, the search ends when its
\* counter does): the search ends after exactly 100 halving passes; at every
\* pass lo0 <= lo <= mid <= hi <= hi0 and the interval is halved, lo raised to
\* mid only when the size needed at mid exceeds n_per_group and hi lowered
\* otherwise; the detectable_mde returned lies in [0.0001, 0.10].
C20_HalvesEveryPass ==
    /\ []SearchInRange
    /\ [][SearchStep /\ ProperCut]_vars

\* C20, amended: as stated, except that the interval is cut in two only while
\* some double lies strictly between lo and hi; once lo and hi are equal or
\* neighbouring doubles (after some 55 passes) mid is one of them and the
\* remaining passes no longer halve the interval.
C20_HalvesWhileRoom ==
    /\ []SearchInRange
    /\ [][SearchStep /\ (RoomBetween => ProperCut)]_vars

\* C20's case: pass 100 is made with no double left between lo and hi, for a
\* sample size whose detectable effect lies below the range.
C20_Witness ==
    /\ pa.pc = "loop"
    /\ pa.i = Iterations
    /\ ~RoomBetween
    /\ pa.args.n_per_group = Some(10 ^ 9)
    /\ Round6(pa.mid) = 100

\* The segments of the result rows, in row order.
RowSegments == [i \in DOMAIN results_df |-> results_df[i].segment]

\* C21: segment_analysis processes the segments in ascending label order and
\* emits its rows in that order whatever the row order of the input (a
\* returned row with a label never follows a row with a larger label, and the
\* rows are those of sorting the labels from any other order of appearance),
\* and no significance flag is set before the p-values of all segments are
\* collected.
C21_AscendingRowsThenCorrection ==
    /\ sa_pc = "loop" => results_df = <<>>
    /\ sa_pc = "done" =>
          /\ Len(p_values) = Cardinality(Present)
          /\ \A i, j \in DOMAIN results_df :
                (i < j /\ results_df[i].segment # NaNLabel /\ results_df[j].segment # NaNLabel)
                    => results_df[i].segment < results_df[j].segment
          /\ \A other \in Orders(Present) : RowSegments = sorted(other)

\* The number of p-values below the one at position i: its rank, when no
\* other position holds the same value.
Below(pvals, i) == Cardinality({k \in DOMAIN pvals : pvals[k] < pvals[i]})
Alone(pvals, i) == \A k \in DOMAIN pvals : pvals[k] = pvals[i] => k = i

\* C22: holm_correction applies no running maximum: whenever p_i < p_j (neither
\* shared with another position) and min(1, (n - rank_i) * p_i) exceeds
\* min(1, (n - rank_j) * p_j), the adjusted value of the smaller p-value is
\* the larger one, as for [0.01, 0.011, 0.5]; and two positions with the same
\* p-value above 0 get different adjusted values unless both are cut to 1.
C22_NoRunningMaximum ==
    Returned("holm_correction") =>
        LET pvals == args.p_values
            n == Len(pvals)
        IN  /\ \A i, j \in 1..n :
                  (/\ pvals[i] < pvals[j]
                   /\ Alone(pvals, i) /\ Alone(pvals, j)
                   /\ Min(Micro, (n - Below(pvals, i)) * pvals[i])
                          > Min(Micro, (n - Below(pvals, j)) * pvals[j]))
                      => out.adjusted[i] > out.adjusted[j]
            /\ \A i, j \in 1..n :
                  (i # j /\ pvals[i] = pvals[j] /\ pvals[i] > 0)
                      => \/ out.adjusted[i] # out.adjusted[j]
                         \/ out.adjusted[i] = Micro /\ out.adjusted[j] = Micro

\* C22's case: [0.01, 0.011, 0.5] gives 0.03, 0.022 and 0.5.
C22_Witness ==
    /\ Returned("holm_correction")
    /\ args.p_values = <<10000, 11000, 500000>>
    /\ out.adjusted = <<30000, 22000, 500000>>

\* The contract failures of a call of validate_experiment_data: the required
\* columns a table lacks, and the values outside the allowed sets of the
\* columns it has.
Failures ==
    LET a == args
        bad(column, allowed) ==
            IF column \in a.ab_columns
            THEN {a.ab_rows[i][column] : i \in DOMAIN a.ab_rows} \ allowed ELSE {}
    IN  [ missing_ab |-> Range(REQUIRED_AB_COLUMNS) \ a.ab_columns,
          missing_country |-> Range(REQUIRED_COUNTRY_COLUMNS) \ a.country_columns,
          group |-> bad("group", {"control", "treatment"}),
          landing_page |-> bad("landing_page", {"old_page", "new_page"}),
          converted |-> bad("converted", {0, 1}) ]

\* How the message names each kind of failure.
FailureLabel ==
    [ missing_ab |-> "ab_data missing columns",
      missing_country |-> "countries_data missing columns",
      group |-> "invalid group values",
      landing_page |-> "invalid landing_page values",
      converted |-> "invalid converted values" ]

\* C23: validate_experiment_data raises DataValidationError, with a message
\* listing every failure, whenever a required column is missing from either
\* table or group, landing_page or converted holds a value outside its allowed
\* set, and never another exception; it returns the report, with no errors,
\* only when there is no failure; duplicate users and mismatches are counted
\* in the report and are no failures.
C23_FailuresRaiseDataValidationError ==
    op = "validate_experiment_data" =>
        LET f == Failures
            found == {k \in DOMAIN f : f[k] # {}}
        IN  IF found = {}
            THEN /\ out.exc = "none"
                 /\ out.errors = <<>>
                 /\ out.duplicate_users_ab = Duplicated(args.ab_rows)
                 /\ out.mismatch_rows = Mismatches(args.ab_rows)
            ELSE /\ out.exc = "DataValidationError"
                 /\ Len(out.errors) = Cardinality(found)
                 /\ \A k \in found : \E i \in DOMAIN out.errors :
                        /\ out.errors[i].check = FailureLabel[k]
                        /\ out.errors[i].found = f[k]

=============================================================================
